---- MODULE Spec2Model ----
(***************************************************************************)
(* Model of web-pars/main.py: the pipeline that fetches a batch of company *)
(* records, scrapes each homepage in its own process (parse_company), and  *)
(* persists the texts from a single saver process (save_results) fed by a  *)
(* multiprocessing Queue.                                                  *)
(*                                                                         *)
(* Texts are sequences of one-character strings, so that the sanitising    *)
(* of line 184 and the truth test of line 240 are computed, not assumed.   *)
(***************************************************************************)
EXTENDS Integers, Sequences, FiniteSets, TLC

\* ------------------------------------------------------------------ bounds
\* Largest number of rows the select of fetch_companies returns in the model.
MaxBatch == 3
\* Largest positive MAX_THREADS explored.
MaxThreads == 2
\* Largest BATCH_SIZE explored when every page text of Pages may be served,
\* and when liveness is checked.
MaxTextBatch == 2

\* Number of envelopes the pipe under result_queue holds before the feeder
\* thread of a producer blocks (the operating system's pipe buffer).
PipeCap == 1

\* ------------------------------------------------------------- data values
Ids == 1..MaxBatch

\* Values MAX_THREADS takes: int(os.getenv(...)) may be zero or negative.
ThreadLimits == {-1, 0} \cup (1..MaxThreads)

\* The values of MAX_THREADS for which liveness is checked.
FairLimits == {-1, 0, 1, 2}

Quotes == {"\"", "'"}
Blank == {" "}

\* The marker parse_company enqueues on failure, and the sentinel of main.
ERROR == <<"E", "R", "R", "O", "R">>
STOP == <<"STOP">>

\* Raw page texts the browser may return (the ' '.join of line 181): a quoted
\* word after a separator, nothing, a lone quote, and the word ERROR itself.
PlainPage == <<"\"", " ", "h", "i", "\"">>

Pages ==
  { PlainPage,
    <<>>,
    <<"'">>,
    <<"E", "R", "R", "O", "R">> }

\* (id, homepageurl) row of the select.
Company(i) == <<i, <<"url", i>>>>

\* ------------------------------------------------------- pure text helpers
\* str.replace('"', '').replace("'", '')
RemoveQuotes(s) == SelectSeq(s, LAMBDA c : c \notin Quotes)

RECURSIVE LStrip(_)
LStrip(s) ==
  IF s # <<>> /\ Head(s) \in Blank THEN LStrip(Tail(s)) ELSE s

RECURSIVE RStrip(_)
RStrip(s) ==
  IF s # <<>> /\ s[Len(s)] \in Blank THEN RStrip(SubSeq(s, 1, Len(s) - 1)) ELSE s

\* str.strip()
Strip(s) == RStrip(LStrip(s))

\* text.replace('"', '').replace("'", '').strip()
Sanitize(raw) == Strip(RemoveQuotes(raw))

\* Python truth value of a str: the empty string is falsy.
Truthy(t) == t # <<>>

\* Faulty variant: the ChatGPT call is live: None for no text or the marker, a
\* summary otherwise.
ProcessedTextEnriched(t) ==
  IF t = <<>> \/ t = ERROR THEN <<>> ELSE <<"s", "u", "m">>

\* processed_text = text  (the ChatGPT call is commented out)
ProcessedText(t) == t

\* ------------------------------------------------------------------- state
VARIABLES
  maxThreads,   \* CONFIG['MAX_THREADS']
  batchSize,    \* CONFIG['BATCH_SIZE']
  web,          \* the raw page texts the sites of this run may serve
  pc,           \* position of main
  companies,    \* the fetched batch
  idx,          \* index of the next company of the for loop of main
  processes,    \* the list `processes` of main (ids of started extractors)
  jn,           \* index of the next process to join
  ext,          \* position of each parse_company process
  session,      \* the webdriver of each parse_company: none, open, quit
  text,         \* the local `text` of each parse_company
  chan,         \* result_queue in put order: the first PipeCap items are in
                \* its pipe, the rest in the feeder buffers of their producers
  saver,        \* position of save_results
  item,         \* the local `item` of save_results while it is live
  store,        \* company.description by id
  sent,         \* history: the kinds of envelope each extractor enqueued
  updates,      \* history: per id, the fate of each envelope the saver handled
  got,          \* history: number of envelopes the saver dequeued
  stops,        \* history: number of STOP the saver dequeued
  stopsPut      \* history: number of STOP main enqueued

vars ==
  << maxThreads, batchSize, web, pc, companies, idx, processes, jn, ext, session, text, chan,
     saver, item, store, sent, updates, got, stops, stopsPut >>

mainVars == << pc, companies, idx, processes, jn, stopsPut >>
extVars == << ext, session, text, sent >>
saverVars == << saver, item, store, updates, got, stops >>

config == << maxThreads, batchSize, web >>

\* The processes when main is entered.
AtEntry ==
  /\ pc = "fetch"
  /\ companies = <<>>
  /\ idx = 1
  /\ processes = <<>>
  /\ jn = 1
  /\ ext = [i \in Ids |-> "idle"]
  /\ session = [i \in Ids |-> "none"]
  /\ text = [i \in Ids |-> <<>>]
  /\ chan = <<>>
  /\ saver = "idle"
  /\ item = <<>>
  /\ sent = [i \in Ids |-> <<>>]
  /\ updates = [i \in Ids |-> <<>>]
  /\ got = 0
  /\ stops = 0
  /\ stopsPut = 0

\* The state when main is entered, the configuration left open: the rows
\* the select returns have an empty description.
Start ==
  /\ AtEntry
  /\ store = [i \in Ids |-> <<>>]

\* Every thread limit, the largest batch, sites serving the plain page.
Init ==
  /\ maxThreads \in ThreadLimits
  /\ batchSize = MaxBatch
  /\ web = {PlainPage}
  /\ Start

\* Thread limits up to two, a smaller batch, sites serving the plain page.
InitFair ==
  /\ maxThreads \in FairLimits
  /\ batchSize = MaxTextBatch
  /\ web = {PlainPage}
  /\ Start

\* Every positive thread limit, a smaller batch, sites serving any page.
InitText ==
  /\ maxThreads \in 1..MaxThreads
  /\ batchSize = MaxTextBatch
  /\ web = Pages
  /\ Start

\* ------------------------------------------------------------------- main
\* cursor.fetchall() of fetch_companies: the rows whose description is ''.
Fetch ==
  /\ pc = "fetch"
  /\ \E n \in 0..batchSize :
       companies' = [k \in 1..n |-> Company(k)]
  /\ pc' = "check"
  /\ UNCHANGED << config, idx, processes, jn, stopsPut, chan >>
  /\ UNCHANGED << extVars, saverVars >>

\* except Error in fetch_companies: logged, [] returned.
FetchFails ==
  /\ pc = "fetch"
  /\ companies' = <<>>
  /\ pc' = "check"
  /\ UNCHANGED << config, idx, processes, jn, stopsPut, chan >>
  /\ UNCHANGED << extVars, saverVars >>

\* Faulty variant: the empty-batch test is missing, main always goes on.
NoWorkNever(cs) == FALSE

\* `not companies`
NoWork(cs) == cs = <<>>

\* if not companies: warning; return
NoCompanies ==
  /\ pc = "check"
  /\ NoWork(companies)
  /\ pc' = "done"
  /\ UNCHANGED << config, companies, idx, processes, jn, stopsPut, chan >>
  /\ UNCHANGED << extVars, saverVars >>

\* result_queue = Queue(); saver_process.start()
StartSaver ==
  /\ pc = "check"
  /\ ~NoWork(companies)
  /\ saver' = "get"
  /\ pc' = "loop"
  /\ UNCHANGED << config, companies, idx, processes, jn, stopsPut, chan >>
  /\ UNCHANGED << extVars, item, store, updates, got, stops >>

\* Faulty variant: the round is joined one process too late (> for >=).
RoundFullLate(ps) == Len(ps) > maxThreads

\* Faulty variant: a round is full only when it holds exactly MAX_THREADS
\* processes, which no round does for a limit of 0 or less.
RoundFullExact(ps) == Len(ps) = maxThreads

\* len(processes) >= CONFIG['MAX_THREADS']
RoundFull(ps) == Len(ps) >= maxThreads

\* One pass of the for loop of main: start the process of the next company,
\* append it, and enter the joins when the round is full.
StartExtractor ==
  /\ pc = "loop"
  /\ idx <= Len(companies)
  /\ LET i == companies[idx][1]
         ps == Append(processes, i)
     IN  /\ ext' = [ext EXCEPT ![i] = "chrome"]
         /\ processes' = ps
         /\ idx' = idx + 1
         /\ jn' = 1
         /\ pc' = IF RoundFull(ps) THEN "join" ELSE "loop"
  /\ UNCHANGED << config, companies, stopsPut, chan, session, text, sent >>
  /\ UNCHANGED saverVars

\* Faulty variant: the join returns at once (a zero timeout).
JoinDoesNotWait(i) == TRUE

\* p.join() returns once the process has exited.
Terminated(i) == ext[i] = "done"

\* Faulty variant: the list is not emptied after the joins of a round.
JoinRoundKeepsList ==
  /\ pc = "join"
  /\ jn <= Len(processes)
  /\ Terminated(processes[jn])
  /\ IF jn = Len(processes)
       THEN /\ jn' = 1
            /\ pc' = "loop"
       ELSE /\ jn' = jn + 1
            /\ UNCHANGED pc
  /\ UNCHANGED << config, companies, idx, processes, stopsPut, chan >>
  /\ UNCHANGED << extVars, saverVars >>

\* for p in processes: p.join(); processes = []   (lines 272-274)
JoinRound ==
  /\ pc = "join"
  /\ jn <= Len(processes)
  /\ Terminated(processes[jn])
  /\ IF jn = Len(processes)
       THEN /\ processes' = <<>>
            /\ jn' = 1
            /\ pc' = "loop"
       ELSE /\ jn' = jn + 1
            /\ UNCHANGED << processes, pc >>
  /\ UNCHANGED << config, companies, idx, stopsPut, chan >>
  /\ UNCHANGED << extVars, saverVars >>

\* Faulty variant: the joins of the remaining processes are missing.
AfterLoopNoJoin == "put_stop"

\* Where main goes when the for loop is exhausted: the joins of lines 277-278
\* when processes are left, line 280 otherwise.
AfterLoop == IF processes = <<>> THEN "put_stop" ELSE "final_join"

LoopDone ==
  /\ pc = "loop"
  /\ idx > Len(companies)
  /\ pc' = AfterLoop
  /\ jn' = 1
  /\ UNCHANGED << config, companies, idx, processes, stopsPut, chan >>
  /\ UNCHANGED << extVars, saverVars >>

\* for p in processes: p.join()   (lines 277-278)
JoinRemaining ==
  /\ pc = "final_join"
  /\ jn <= Len(processes)
  /\ Terminated(processes[jn])
  /\ jn' = jn + 1
  /\ pc' = IF jn = Len(processes) THEN "put_stop" ELSE "final_join"
  /\ UNCHANGED << config, companies, idx, processes, stopsPut, chan >>
  /\ UNCHANGED << extVars, saverVars >>

\* Faulty variant: main goes on to join the saver without sending STOP.
PutStopMissing ==
  /\ pc = "put_stop"
  /\ pc' = "join_saver"
  /\ UNCHANGED << config, companies, idx, processes, jn, stopsPut, chan >>
  /\ UNCHANGED << extVars, saverVars >>

\* result_queue.put("STOP")
PutStop ==
  /\ pc = "put_stop"
  /\ chan' = Append(chan, STOP)
  /\ stopsPut' = stopsPut + 1
  /\ pc' = "join_saver"
  /\ UNCHANGED << config, companies, idx, processes, jn >>
  /\ UNCHANGED << extVars, saverVars >>

\* Faulty variant: main does not wait for the saver.
SaverNotAwaited == TRUE

\* A process has exited when its target returned or died of an exception.
SaverExited == saver \in {"done", "crashed"}

\* saver_process.join(); logging.info("Processing completed")
JoinSaver ==
  /\ pc = "join_saver"
  /\ SaverExited
  /\ pc' = "done"
  /\ UNCHANGED << config, companies, idx, processes, jn, stopsPut, chan >>
  /\ UNCHANGED << extVars, saverVars >>

\* ---------------------------------------------------------- parse_company
\* Positions of the body of the with block from which a raise goes through
\* the except and the finally of get_webdriver with a driver to quit.
BodySteps == {"get", "wait", "scroll", "find"}

extFrame == UNCHANGED << config, mainVars, saverVars >>

\* driver = webdriver.Chrome(options=options); yield driver
ChromeStarts(i) ==
  /\ ext[i] = "chrome"
  /\ session' = [session EXCEPT ![i] = "open"]
  /\ ext' = [ext EXCEPT ![i] = "get"]
  /\ UNCHANGED << text, sent, chan >>
  /\ extFrame

\* webdriver.Chrome raises: logged and re-raised by get_webdriver, whose
\* finally finds driver None; the except of parse_company is next.
ChromeRaises(i) ==
  /\ ext[i] = "chrome"
  /\ ext' = [ext EXCEPT ![i] = "except"]
  /\ UNCHANGED << session, text, sent, chan >>
  /\ extFrame

\* driver.get(url)
Navigate(i) ==
  /\ ext[i] = "get"
  /\ ext' = [ext EXCEPT ![i] = "wait"]
  /\ UNCHANGED << session, text, sent, chan >>
  /\ extFrame

\* WebDriverWait(driver, 10).until(presence of body)
WaitReady(i) ==
  /\ ext[i] = "wait"
  /\ ext' = [ext EXCEPT ![i] = "scroll"]
  /\ UNCHANGED << session, text, sent, chan >>
  /\ extFrame

\* driver.execute_script("window.scrollTo(...)")
Scroll(i) ==
  /\ ext[i] = "scroll"
  /\ ext' = [ext EXCEPT ![i] = "find"]
  /\ UNCHANGED << session, text, sent, chan >>
  /\ extFrame

\* (text, company_id) as put on result_queue
Envelope(t, i) == <<t, i>>

\* elements = driver.find_elements(...); text = ' '.join(...); then the
\* cleaning of line 184.
CollectText(i) ==
  /\ ext[i] = "find"
  /\ \E raw \in web :
       text' = [text EXCEPT ![i] = Sanitize(raw)]
  /\ ext' = [ext EXCEPT ![i] = "put"]
  /\ UNCHANGED << session, sent, chan >>
  /\ extFrame

\* Faulty variant: the queue is bounded, put waits for room.
PutResultBounded(i) ==
  /\ ext[i] = "put"
  /\ Len(chan) < PipeCap
  /\ chan' = Append(chan, Envelope(text[i], i))
  /\ sent' = [sent EXCEPT ![i] = Append(@, "S")]
  /\ ext' = [ext EXCEPT ![i] = "quit"]
  /\ UNCHANGED << session, text >>
  /\ extFrame

\* result_queue.put((text, company_id)); logging.info(...)   (still inside
\* the with block: the finally of get_webdriver has not run yet)
PutResult(i) ==
  /\ ext[i] = "put"
  /\ chan' = Append(chan, Envelope(text[i], i))
  /\ sent' = [sent EXCEPT ![i] = Append(@, "S")]
  /\ ext' = [ext EXCEPT ![i] = "quit"]
  /\ UNCHANGED << session, text >>
  /\ extFrame

\* Faulty variant: no finally around the yield, so a raise in the body skips quit.
StepRaisesNoFinally(i) ==
  /\ ext[i] \in BodySteps
  /\ ext' = [ext EXCEPT ![i] = "except"]
  /\ UNCHANGED << session, text, sent, chan >>
  /\ extFrame

\* A step of the with body raises: the exception is thrown into the
\* generator at its yield, logged by the except of get_webdriver when it is
\* a WebDriverException, and the finally runs with driver set.
StepRaises(i) ==
  /\ ext[i] \in BodySteps
  /\ ext' = [ext EXCEPT ![i] = "quit_exc"]
  /\ UNCHANGED << session, text, sent, chan >>
  /\ extFrame

\* In session, "quit" records that driver.quit() was called on the driver;
\* what the browser does when quit itself raises is outside this code.
\* finally: driver.quit() while an exception is in flight. Whether quit
\* returns or raises, an exception leaves the with block.
QuitAfterRaise(i) ==
  /\ ext[i] = "quit_exc"
  /\ session' = [session EXCEPT ![i] = "quit"]
  /\ ext' = [ext EXCEPT ![i] = "except"]
  /\ UNCHANGED << text, sent, chan >>
  /\ extFrame

\* finally: driver.quit() on the normal exit of the with block; it returns
\* and parse_company ends.
QuitReturns(i) ==
  /\ ext[i] = "quit"
  /\ session' = [session EXCEPT ![i] = "quit"]
  /\ ext' = [ext EXCEPT ![i] = "exit"]
  /\ UNCHANGED << text, sent, chan >>
  /\ extFrame

\* finally: driver.quit() on the normal exit raises: the exception leaves
\* the with block inside the try of parse_company.
QuitRaises(i) ==
  /\ ext[i] = "quit"
  /\ session' = [session EXCEPT ![i] = "quit"]
  /\ ext' = [ext EXCEPT ![i] = "except"]
  /\ UNCHANGED << text, sent, chan >>
  /\ extFrame

\* except Exception: logging.error(...); result_queue.put(("ERROR", id))
PutError(i) ==
  /\ ext[i] = "except"
  /\ chan' = Append(chan, Envelope(ERROR, i))
  /\ sent' = [sent EXCEPT ![i] = Append(@, "F")]
  /\ ext' = [ext EXCEPT ![i] = "exit"]
  /\ UNCHANGED << session, text >>
  /\ extFrame

\* Every envelope process i has put has been written to the pipe by the
\* feeder thread of its Queue object.
Flushed(i) ==
  \A k \in 1..Len(chan) :
    (chan[k] # STOP /\ chan[k][2] = i) => k <= PipeCap

\* parse_company has returned: the process exits once the feeder thread of
\* result_queue is joined, that is once its buffered items are in the pipe
\* (multiprocessing joins the feeder of a Queue the process has put to).
Exit(i) ==
  /\ ext[i] = "exit"
  /\ Flushed(i)
  /\ ext' = [ext EXCEPT ![i] = "done"]
  /\ UNCHANGED << session, text, sent, chan >>
  /\ extFrame

\* ----------------------------------------------------------- save_results
saverFrame == UNCHANGED << config, mainVars, extVars >>

\* Faulty variant: the failure marker ends the loop like the sentinel.
IsStopOrError(it) == it = STOP \/ it[1] = ERROR

\* item == "STOP"
IsStop(it) == it = STOP

\* item = result_queue.get(); the STOP test; text, company_id = item;
\* processed_text = text; the test `if processed_text`.
SaverGet ==
  /\ saver = "get"
  /\ chan # <<>>
  /\ LET it == Head(chan)
     IN  /\ chan' = Tail(chan)
         /\ IF IsStop(it)
              THEN /\ saver' = "done"
                   /\ stops' = stops + 1
                   /\ UNCHANGED << item, got, updates >>
              ELSE /\ got' = got + 1
                   /\ stops' = stops
                   /\ IF Truthy(ProcessedText(it[1]))
                        THEN /\ saver' = "update"
                             /\ item' = it
                             /\ UNCHANGED updates
                        ELSE /\ saver' = "get"
                             /\ updates' = [updates EXCEPT ![it[2]] = Append(@, "skip")]
                             /\ UNCHANGED item
  /\ UNCHANGED store
  /\ saverFrame

\* Faulty variant: INSERT ... ON DUPLICATE KEY UPDATE, which adds the row
\* when no row has the id.
UpdateCompanyUpsert(tbl, t, id) ==
  [r \in DOMAIN tbl \cup {id} |-> IF r = id THEN t ELSE tbl[r]]

\* UPDATE company SET description = t WHERE id = id, on a table given as
\* the description of each row by its id.
UpdateCompany(tbl, t, id) ==
  [r \in DOMAIN tbl |-> IF r = id THEN t ELSE tbl[r]]

\* cursor.execute(update_company, (processed_text, company_id)); commit.
\* `item` is dead until the next get assigns it, so it is cleared here.
SaverUpdate ==
  /\ saver = "update"
  /\ store' = UpdateCompany(store, ProcessedText(item[1]), item[2])
  /\ updates' = [updates EXCEPT ![item[2]] = Append(@, "ok")]
  /\ saver' = "get"
  /\ item' = <<>>
  /\ UNCHANGED << got, stops, chan >>
  /\ saverFrame

\* Faulty variant: the failed update is tried again for the same item.
SaverUpdateFailsRetries ==
  /\ saver = "update"
  /\ updates' = [updates EXCEPT ![item[2]] = Append(@, "fail")]
  /\ UNCHANGED << saver, item, store, got, stops, chan >>
  /\ saverFrame

\* Faulty variant: the Error is not caught and ends save_results.
SaverUpdateFailsAborts ==
  /\ saver = "update"
  /\ saver' = "crashed"
  /\ item' = <<>>
  /\ UNCHANGED << store, updates, got, stops, chan >>
  /\ saverFrame

\* The pool, the connection or the execute raises mysql Error: caught by
\* the except of line 247 and logged; the while loop goes on.
SaverUpdateFails ==
  /\ saver = "update"
  /\ updates' = [updates EXCEPT ![item[2]] = Append(@, "fail")]
  /\ saver' = "get"
  /\ item' = <<>>
  /\ UNCHANGED << store, got, stops, chan >>
  /\ saverFrame

\* --------------------------------------------------------- specification
Next ==
  \/ Fetch
  \/ FetchFails
  \/ NoCompanies
  \/ StartSaver
  \/ StartExtractor
  \/ JoinRound
  \/ LoopDone
  \/ JoinRemaining
  \/ PutStop
  \/ JoinSaver
  \/ \E i \in Ids : ChromeStarts(i)
  \/ \E i \in Ids : ChromeRaises(i)
  \/ \E i \in Ids : Navigate(i)
  \/ \E i \in Ids : WaitReady(i)
  \/ \E i \in Ids : Scroll(i)
  \/ \E i \in Ids : CollectText(i)
  \/ \E i \in Ids : PutResult(i)
  \/ \E i \in Ids : StepRaises(i)
  \/ \E i \in Ids : QuitAfterRaise(i)
  \/ \E i \in Ids : QuitReturns(i)
  \/ \E i \in Ids : QuitRaises(i)
  \/ \E i \in Ids : PutError(i)
  \/ \E i \in Ids : Exit(i)
  \/ SaverGet
  \/ SaverUpdate
  \/ SaverUpdateFails

Spec == Init /\ [][Next]_vars

SpecText == InitText /\ [][Next]_vars

\* The texts an update may carry.
Texts == {Sanitize(raw) : raw \in Pages} \cup {ERROR}

\* Any table over the ids: some rows present, with any description.
InitStore ==
  /\ maxThreads = 1
  /\ batchSize = MaxBatch
  /\ web = Pages
  /\ AtEntry
  /\ \E rows \in SUBSET Ids : store \in [rows -> Texts]

\* The update statement executed with any text and any id, as the savers
\* of successive runs do; item keeps its arguments.
AnyUpdate ==
  /\ \E t \in Texts, id \in Ids :
       /\ item' = Envelope(t, id)
       /\ store' = UpdateCompany(store, t, id)
  /\ UNCHANGED << saver, updates, got, stops, chan >>
  /\ saverFrame

SpecStore == InitStore /\ [][AnyUpdate]_vars

\* The steps of each process.
MainNext ==
  \/ Fetch \/ FetchFails \/ NoCompanies \/ StartSaver \/ StartExtractor
  \/ JoinRound \/ LoopDone \/ JoinRemaining \/ PutStop \/ JoinSaver

ExtractorNext(i) ==
  \/ ChromeStarts(i) \/ ChromeRaises(i) \/ Navigate(i) \/ WaitReady(i)
  \/ Scroll(i) \/ CollectText(i) \/ PutResult(i) \/ StepRaises(i)
  \/ QuitAfterRaise(i) \/ QuitReturns(i) \/ QuitRaises(i) \/ PutError(i)
  \/ Exit(i)

SaverNext == SaverGet \/ SaverUpdate \/ SaverUpdateFails

\* The operating system runs every process that can take a step, and every
\* browser or database call returns or raises: each process is weakly fair.
Fairness ==
  /\ WF_vars(MainNext)
  /\ \A i \in Ids : WF_vars(ExtractorNext(i))
  /\ WF_vars(SaverNext)

SpecFair == InitFair /\ [][Next]_vars /\ Fairness

\* ------------------------------------------------------ derived quantities
\* Ids of the fetched batch.
Batch == {companies[k][1] : k \in 1..Len(companies)}

\* Extractor processes started and not yet terminated.
Active == {i \in Ids : ext[i] \notin {"idle", "done"}}

RECURSIVE TotalLen(_, _)
TotalLen(f, S) ==
  IF S = {} THEN 0
  ELSE LET x == CHOOSE y \in S : TRUE
       IN  Len(f[x]) + TotalLen(f, S \ {x})

\* Envelopes enqueued so far, and envelopes whose handling is finished.
Enqueued == TotalLen(sent, Ids)
Handled == TotalLen(updates, Ids)

\* The text of the k-th envelope extractor i enqueued.
SentText(i, k) == IF sent[i][k] = "S" THEN text[i] ELSE ERROR

\* No update was issued for id i: every envelope of i handled so far was
\* skipped.
NoUpdateIssued(i) == \A k \in 1..Len(updates[i]) : updates[i][k] = "skip"

Hi == <<"h", "i">>

\* ------------------------------------------------------------------ claims

\* C1: each record handed to the Dispatcher puts exactly one envelope on
\* the channel whatever steps fail (none lost, none duplicated), so the
\* Aggregator has dequeued exactly N envelopes when it dequeues the STOP.
C1_ExactlyOneEnvelope ==
  maxThreads >= 1 =>
    /\ \A i \in Ids : Len(sent[i]) <= 1
    /\ \A i \in Ids : ext[i] = "done" => Len(sent[i]) = 1
    /\ stops = 1 => got = Len(companies)

\* C2: for every K >= 1, at most K Extractor processes are started and not
\* yet terminated, in every reachable state.
C2_AtMostKActive ==
  maxThreads >= 1 => Cardinality(Active) <= maxThreads

\* C2 witness: a full round of two runs while a third record still waits.
C2_Witness ==
  /\ maxThreads = 2
  /\ Cardinality(Active) = 2
  /\ idx <= Len(companies)

\* C3: a record whose extraction ends in a Failure outcome never causes an
\* update for its id; the store's value for that id is left unchanged.
C3_FailureNeverWritten ==
  maxThreads >= 1 =>
    \A i \in Ids :
      sent[i] = <<"F">> => (NoUpdateIssued(i) /\ store[i] = <<>>)

\* The first envelope of extractor i is a Success envelope and the saver
\* has finished handling it without a failed update.
SuccessHandled(i) ==
  /\ sent[i] # <<>>
  /\ sent[i][1] = "S"
  /\ updates[i] # <<>>
  /\ updates[i][1] # "fail"

\* The saver issued the update of i's first envelope and, while no later
\* envelope of i has been handled, the store holds t under i.
WrittenAs(i, t) ==
  /\ updates[i][1] = "ok"
  /\ Len(updates[i]) = 1 => store[i] = t

\* C4 as claimed: with enrichment disabled, for every Success outcome with
\* sanitized text t (every t) whose update does not fail, the Aggregator
\* writes t under the record's id.
C4_SuccessPersistedAnyText ==
  \A i \in Ids : SuccessHandled(i) => WrittenAs(i, text[i])

\* C4 as amended: the same for every non-empty sanitized text t; for the
\* empty text no update is issued.
C4_SuccessPersistedNonEmpty ==
  \A i \in Ids :
    SuccessHandled(i) =>
      IF Truthy(text[i]) THEN WrittenAs(i, text[i]) ELSE updates[i][1] = "skip"

\* C4 witness: a sanitized page text was written, and so was a page text
\* spelling the failure marker.
C4_Witness ==
  /\ SuccessHandled(1) /\ text[1] = Hi /\ updates[1] = <<"ok">> /\ store[1] = Hi
  /\ SuccessHandled(2) /\ text[2] = ERROR /\ updates[2] = <<"ok">>
  /\ store[2] = ERROR

\* Every STOP still on the channel is its last item.
StopIsLast == \A k \in 1..Len(chan) : chan[k] = STOP => k = Len(chan)

\* C5: with a non-empty batch main enqueues STOP exactly once, and only
\* when every Extractor of every round has terminated; every envelope is
\* then on the channel or consumed, and none is enqueued after the STOP.
C5_StopAfterAllExtractors ==
  /\ stopsPut <= 1
  /\ stopsPut = 1 => \A i \in Ids : ext[i] = (IF i \in Batch THEN "done" ELSE "idle")
  /\ stopsPut = 1 => Enqueued = got + Len(chan) - (stopsPut - stops)
  /\ StopIsLast
  /\ stops = 1 => chan = <<>>
  /\ (pc = "done" /\ companies # <<>>) => stopsPut = 1

\* C5 witness: STOP sits behind an envelope after a full round and a
\* partial round have been joined.
C5_Witness ==
  /\ maxThreads = 2
  /\ Len(companies) = 3
  /\ stopsPut = 1
  /\ Len(chan) >= 2
  /\ chan[Len(chan)] = STOP

\* The saver's history does not move.
SaverQuiet == UNCHANGED << got, stops, store, updates >>

\* C6: the Aggregator issues at most one update per envelope it dequeues,
\* observes STOP exactly once, and after observing it dequeues nothing
\* further and issues no update.
C6_OneWritePerEnvelope ==
  /\ [](/\ Handled <= got
        /\ saver = "get" => Handled = got
        /\ saver = "update" => Handled = got - 1
        /\ stops <= 1
        /\ stops = 1 <=> saver = "done"
        /\ (pc = "done" /\ companies # <<>>) => stops = 1)
  /\ [][stops >= 1 => SaverQuiet]_vars

\* C6 witness: the run is over, STOP was observed after three envelopes of
\* which one was written, one failed to be written and one was skipped.
C6_Witness ==
  /\ pc = "done"
  /\ stops = 1
  /\ got = 3
  /\ updates[1] = <<"ok", "fail">>
  /\ updates[2] = <<"skip">>

\* C7: a failed store update does not stop the Aggregator: it keeps
\* looping and every envelope dequeued after the failed one is still
\* handled, and persisted when its own update succeeds, until STOP.
C7_FailedUpdateDoesNotStop ==
  /\ saver # "crashed"
  /\ (pc = "done" /\ companies # <<>>) =>
       /\ stops = 1
       /\ got = Enqueued
       /\ \A i \in Ids : Len(updates[i]) = Len(sent[i])
  /\ \A i \in Ids :
       (updates[i] # <<>> /\ updates[i][Len(updates[i])] = "ok") =>
         store[i] = SentText(i, Len(updates[i]))

\* C7 witness: the update of record 1 failed, the later envelope of record
\* 2 was persisted, and the run completed.
C7_Witness ==
  /\ maxThreads = 1
  /\ pc = "done"
  /\ updates[1] = <<"fail">>
  /\ store[1] = <<>>
  /\ sent[2] = <<"S">>
  /\ updates[2] = <<"ok">>
  /\ store[2] = Hi

RECURSIVE StoredAfter(_, _)
\* The description of id i after the first k envelopes of extractor i have
\* met the fates updates[i] records: a function of record i's own
\* extraction and of the fate of its own updates, and of nothing else.
StoredAfter(i, k) ==
  IF k = 0 THEN <<>>
  ELSE IF updates[i][k] = "ok" THEN SentText(i, k)
  ELSE StoredAfter(i, k - 1)

\* C8: the failure of one record's extraction never affects another record:
\* the value persisted for record i is determined by record i's own
\* envelopes and the fate of its own updates, whatever the other records'
\* extractions do, and at completion every envelope of i has been handled.
C8_FailureIsolation ==
  /\ \A i \in Ids :
       /\ Len(updates[i]) <= Len(sent[i])
       /\ store[i] = StoredAfter(i, Len(updates[i]))
  /\ (pc = "done" /\ companies # <<>>) =>
       \A i \in Ids : Len(updates[i]) = Len(sent[i])

\* C8 witness: record 1 failed and its marker was handled first, record 2
\* succeeded and holds its own text at completion.
C8_Witness ==
  /\ maxThreads = 1
  /\ pc = "done"
  /\ sent[1] = <<"F">>
  /\ updates[1] = <<"ok">>
  /\ sent[2] = <<"S">>
  /\ updates[2] = <<"ok">>
  /\ text[2] = Hi
  /\ store[2] = Hi

\* C9: when the fetched batch is empty (the fetch failed or selected no
\* row) the run starts no Extractor and no Aggregator, enqueues nothing,
\* writes nothing, and completes at once.
C9_EmptyBatch ==
  (pc # "fetch" /\ companies = <<>>) =>
    /\ pc \in {"check", "done"}
    /\ \A i \in Ids : ext[i] = "idle"
    /\ saver = "idle"
    /\ chan = <<>>
    /\ stopsPut = 0
    /\ got = 0
    /\ Handled = 0
    /\ \A i \in Ids : store[i] = <<>>

\* C9 witness: main has returned on an empty batch.
C9_Witness ==
  /\ pc = "done"
  /\ companies = <<>>

\* C10: every session an Extractor opened has had quit called on it on
\* every exit path, success or failure, and none is opened when creating
\* it fails; a terminated Extractor holds no open session and none is open
\* at completion.
C10_SessionsReleased ==
  /\ \A i \in Ids :
       /\ session[i] = "open" <=> ext[i] \in BodySteps \cup {"put", "quit", "quit_exc"}
       /\ ext[i] \in {"idle", "chrome"} => session[i] = "none"
       /\ ext[i] = "done" => session[i] \in {"none", "quit"}
       /\ (ext[i] = "done" /\ session[i] = "none") => sent[i] = <<"F">>
       /\ (sent[i] # <<>> /\ sent[i][1] = "S") => session[i] # "none"
  /\ pc = "done" => \A i \in Ids : session[i] # "open"

\* C10 witness: at completion record 1 failed in a body step and record 2
\* succeeded, both with their session quit, and record 3 never had one.
C10_Witness ==
  /\ pc = "done"
  /\ sent[1] = <<"F">> /\ session[1] = "quit"
  /\ sent[2] = <<"S">> /\ session[2] = "quit"
  /\ sent[3] = <<"F">> /\ session[3] = "none"

\* C11: under fair scheduling, every step returning or failing, every run
\* eventually reports completion, whatever the batch, the limit K >= 1 and
\* the extraction and persistence failures.
C11_RunCompletes == maxThreads >= 1 => <>(pc = "done")

\* C11 witness: a run with an extraction failure and a persistence failure
\* has reported completion.
C11_Witness ==
  /\ maxThreads = 2
  /\ Len(companies) = 2
  /\ pc = "done"
  /\ sent[1] = <<"F">>
  /\ updates[1] = <<"fail">>
  /\ sent[2] = <<"S", "F">>

\* The round of the i-th record when rounds hold K >= 1 records each.
Round(i) == (i - 1) \div maxThreads

\* C12: the Dispatcher is a round barrier: no Extractor of a later round is
\* started while an Extractor of an earlier round has not terminated; with
\* K = 1 the Extractors run strictly one at a time.
C12_RoundBarrier ==
  maxThreads >= 1 =>
    /\ \A i, j \in Ids :
         (Round(i) < Round(j) /\ ext[j] # "idle") => ext[i] = "done"
    /\ maxThreads = 1 => Cardinality(Active) <= 1

\* C12 witness: with K = 2 the third record runs after the first two have
\* terminated, one of them by failing.
C12_Witness ==
  /\ maxThreads = 2
  /\ ext[1] = "done" /\ sent[1] = <<"F">>
  /\ ext[2] = "done"
  /\ ext[3] = "wait"

\* C13: a terminated Extractor has emitted Success exactly when all its
\* steps completed and Failure exactly when a step or the session creation
\* failed: it never emits both a Success and a Failure envelope for one
\* record; and no failure reaches the Dispatcher (the process terminates).
C13_SuccessXorFailure ==
  maxThreads >= 1 =>
    \A i \in Ids :
      /\ ext[i] = "done" => sent[i] \in {<<"S">>, <<"F">>}
      /\ ~(\E k \in 1..Len(sent[i]) : sent[i][k] = "S"
           /\ \E l \in 1..Len(sent[i]) : sent[i][l] = "F")

\* The envelopes of id i for which the saver issued an update.
Writes(i) == {k \in 1..Len(updates[i]) : updates[i][k] # "skip"}

\* C14: within one run over distinct ids the row of each id is written at
\* most once, and only for a Success outcome of that id's record.
C14_WrittenOnceOnSuccess ==
  maxThreads >= 1 =>
    \A i \in Ids :
      /\ Cardinality(Writes(i)) <= 1
      /\ \A k \in Writes(i) : sent[i][k] = "S"

\* C15: when main reports completion of a run with a non-empty batch, every
\* Extractor has terminated, the Aggregator has terminated and the channel
\* is empty: every envelope and the STOP have been dequeued.
C15_TotalDrain ==
  (pc = "done" /\ companies # <<>>) =>
    /\ \A i \in Ids : ext[i] = (IF i \in Batch THEN "done" ELSE "idle")
    /\ saver = "done"
    /\ chan = <<>>
    /\ got = Enqueued
    /\ stops = 1 /\ stopsPut = 1

\* C15 witness: completion of a run of three records in two rounds that
\* produced four envelopes.
C15_Witness ==
  /\ pc = "done"
  /\ maxThreads = 2
  /\ Len(companies) = 3
  /\ got = 4
  /\ chan = <<>>

\* The records started so far are the first idx - 1 of the batch.
StartedPrefix ==
  \A k \in 1..Len(companies) :
    k < idx <=> ext[companies[k][1]] # "idle"

\* The list `processes` holds consecutive records of the batch, at most K of
\* them, beginning at a multiple of K.
CurrentRound ==
  /\ Len(processes) <= maxThreads
  /\ Len(processes) < idx
  /\ \A k \in 1..Len(processes) :
       processes[k] = companies[idx - 1 - Len(processes) + k][1]
  /\ pc \in {"loop", "join", "final_join"} =>
       (idx - 1 - Len(processes)) % maxThreads = 0

\* C16: for every batch size N and every K >= 1 the Dispatcher starts
\* exactly one Extractor for each record of the batch, none skipped and
\* none started twice, in consecutive rounds of at most K records.
C16_OneExtractorPerRecord ==
  /\ [](maxThreads >= 1 =>
          /\ StartedPrefix
          /\ CurrentRound
          /\ \A i \in Ids \ Batch : ext[i] = "idle"
          /\ pc \in {"put_stop", "join_saver"} => idx = Len(companies) + 1
          /\ (pc = "done" /\ companies # <<>>) => idx = Len(companies) + 1)
  /\ [][\A i \in Ids :
          (ext[i] # "chrome" /\ ext'[i] = "chrome") =>
            /\ ext[i] = "idle"
            /\ idx <= Len(companies)
            /\ i = companies[idx][1]
            /\ idx' = idx + 1]_vars

\* C16 witness: three records with K = 2: the third runs alone in the last,
\* partial round after the loop is exhausted.
C16_Witness ==
  /\ maxThreads = 2
  /\ Len(companies) = 3
  /\ pc = "final_join"
  /\ processes = <<3>>
  /\ ext[3] = "scroll"

\* The put of an Extractor standing at one is enabled.
PutEnabled(i) ==
  /\ ext[i] = "put" => ENABLED PutResult(i)
  /\ ext[i] = "except" => ENABLED PutError(i)

\* C17 as claimed: Extractors never block on the consumer: the enqueue is
\* always enabled, and the termination of an Extractor (hence the round
\* barrier) never waits for the Aggregator to dequeue.
C17_NeverWaitsForConsumer ==
  maxThreads >= 1 =>
    \A i \in Ids :
      /\ PutEnabled(i)
      /\ ext[i] = "exit" => ENABLED Exit(i)

\* C17 as amended: the enqueue is always enabled, whatever the channel
\* holds; an Extractor that has returned waits to terminate only while one
\* of its envelopes is not yet in the pipe, the Aggregator still running.
C17_EnqueueNeverBlocks ==
  \A i \in Ids :
    /\ PutEnabled(i)
    /\ ext[i] \notin {"idle", "done", "exit"} => ENABLED ExtractorNext(i)
    /\ (ext[i] = "exit" /\ ~ENABLED Exit(i)) =>
         /\ Len(chan) > PipeCap
         /\ \E k \in (PipeCap + 1)..Len(chan) : chan[k] # STOP /\ chan[k][2] = i
         /\ saver \in {"get", "update"}

\* C17 witness: an Extractor is about to enqueue while the channel already
\* holds more than the pipe takes, and another waits to terminate.
C17_Witness ==
  /\ Len(chan) > PipeCap
  /\ ext[2] = "put"
  /\ ext[1] = "exit"
  /\ ~Flushed(1)

\* C18: persisting the same id twice with the same text is idempotent (the
\* second update leaves the store as the first left it), and an update
\* never adds a row: one row per id at most after any number of updates.
C18_UpdateIdempotent ==
  /\ [](item # <<>> => UpdateCompany(store, item[1], item[2]) = store)
  /\ [][DOMAIN store' = DOMAIN store]_vars

\* C18 witness: the row of id 1 took the text of the last update, while an
\* earlier update of id 2 found no row and added none.
C18_Witness ==
  /\ item = Envelope(Hi, 1)
  /\ 1 \in DOMAIN store
  /\ store[1] = Hi
  /\ 2 \notin DOMAIN store

\* select_company: the rows a batch fetch selects, those whose description
\* is empty.
Selected(tbl) == {i \in DOMAIN tbl : tbl[i] = <<>>}

\* C19: when an Extractor succeeds with an empty sanitized text, no update
\* is issued for that id, so the description stays empty and the record is
\* still selected by the next run's batch fetch.
C19_EmptySuccessStaysSelected ==
  maxThreads >= 1 =>
    \A i \in Ids :
      (sent[i] # <<>> /\ sent[i][1] = "S" /\ text[i] = <<>>) =>
        /\ NoUpdateIssued(i)
        /\ i \in Selected(store)

\* One extractor at a time, in batch order: a record's extractor is started
\* only when the extractor of the record before it has terminated.
OneAtATime ==
  \A i \in Ids \ {1} : ext[i] # "idle" => ext[i - 1] = "done"

\* main returned with every record of the batch extracted and every
\* envelope handled by the saver.
AllProcessed ==
  /\ pc = "done"
  /\ \A i \in Batch :
       /\ ext[i] = "done"
       /\ sent[i] # <<>>
       /\ Len(updates[i]) = Len(sent[i])

\* C20: with a concurrency limit of 0 or less the Dispatcher behaves as
\* with a limit of 1: each Extractor is joined before the next is started,
\* and the run processes every record and completes.
C20_NonPositiveLimitIsOne ==
  maxThreads <= 1 => ([]OneAtATime /\ <>AllProcessed)

\* C20 witness: a run with a limit of 0 or less completed a batch of two.
C20_Witness ==
  /\ maxThreads <= 0
  /\ Len(companies) = 2
  /\ AllProcessed

====
